---------------------------- MODULE Spec2Model ----------------------------
(***************************************************************************)
(* Dual-store resume ingestion and search (backend/app/main.py, crud.py,   *)
(* models.py, schemas.py).                                                 *)
(*                                                                         *)
(* Strings are sequences of one-character strings, so that slicing         *)
(* (text[:300]) and ILIKE pattern matching are computed, not assumed.      *)
(* Python's None is the sentinel value None below, which is no text.       *)
(***************************************************************************)
EXTENDS Integers, Sequences, FiniteSets, TLC

\* ------------------------------------------------------------------ bounds
\* ingest requests received over a run; all of them may be in flight at once
MaxIngests == 2

\* main.py:154  snippet=text[:300]
SnippetLen == 300

\* the ingest requests, numbered in their order of arrival
Reqs == 1..MaxIngests

\* ----------------------------------------------------------------- strings
None == <<"<None>">>
Empty == <<>>

JANE == <<"J","A","N","E">>
JaneDoe == <<"J","a","n","e"," ","D","o","e">>
Bob == <<"B","o","b">>
Underscore == <<"_">>
Percent == <<"%">>
Engineering == <<"E","n","g","i","n","e","e","r","i","n","g">>
Sales == <<"S","a","l","e","s">>
sales == <<"s","a","l","e","s">>
SoftwareEngineer == <<"S","o","f","t","w","a","r","e"," ","E","n","g","i","n","e","e","r">>
ENGINEER == <<"E","N","G","I","N","E","E","R">>

\* "Jane Doe, Software Engineer" (27 characters, shorter than the snippet)
ShortText == JaneDoe \o <<",", " ">> \o SoftwareEngineer
\* a text two characters longer than the snippet, no two neighbours equal
LongText == [i \in 1..(SnippetLen + 2) |-> <<"x", "y", "z">>[(i % 3) + 1]]

\* the test `is not None` in place of truthiness
TruthyNotNone(s) == s # None

\* Python truthiness of an optional str: `if name:`
Truthy(s) == s # None /\ s # Empty

UpperToLower ==
    [c \in {"A","B","C","D","E","F","G","H","I","J","K","L","M","N","O","P",
            "Q","R","S","T","U","V","W","X","Y","Z"} |->
        CASE c = "A" -> "a" [] c = "B" -> "b" [] c = "C" -> "c" [] c = "D" -> "d"
          [] c = "E" -> "e" [] c = "F" -> "f" [] c = "G" -> "g" [] c = "H" -> "h"
          [] c = "I" -> "i" [] c = "J" -> "j" [] c = "K" -> "k" [] c = "L" -> "l"
          [] c = "M" -> "m" [] c = "N" -> "n" [] c = "O" -> "o" [] c = "P" -> "p"
          [] c = "Q" -> "q" [] c = "R" -> "r" [] c = "S" -> "s" [] c = "T" -> "t"
          [] c = "U" -> "u" [] c = "V" -> "v" [] c = "W" -> "w" [] c = "X" -> "x"
          [] c = "Y" -> "y" [] c = "Z" -> "z"]

LowerChar(c) == IF c \in DOMAIN UpperToLower THEN UpperToLower[c] ELSE c

Lower(s) == [i \in 1..Len(s) |-> LowerChar(s[i])]

Tail2(s, k) == SubSeq(s, k, Len(s))

\* SQL LIKE: does the whole of s match pattern p ('%' any run of characters,
\* '_' exactly one character, anything else itself)
RECURSIVE Like(_, _)
Like(p, s) ==
    IF p = <<>> THEN s = <<>>
    ELSE IF Head(p) = "%"
         THEN \E k \in 1..(Len(s) + 1) : Like(Tail(p), Tail2(s, k))
    ELSE IF s = <<>> THEN FALSE
    ELSE IF Head(p) = "_" THEN Like(Tail(p), Tail(s))
    ELSE Head(p) = Head(s) /\ Like(Tail(p), Tail(s))

\* crud.py:14,16,18  column.ilike(f"%{value}%"); a NULL column matches nothing
ILikeContains(column, value) ==
    /\ column # None
    /\ Like(Lower(<<"%">> \o value \o <<"%">>), Lower(column))

\* the plain case-insensitive substring relation
ContainsCI(column, value) ==
    /\ column # None
    /\ \E k \in 0..(Len(column) - Len(value)) :
          SubSeq(Lower(column), k + 1, k + Len(value)) = Lower(value)

\* ------------------------------------------------------------------ inputs
\* POST /ingest requests: the uploaded file and the optional form fields
\* (main.py:92-98; Form(None) leaves an omitted field None)
Uploads ==
    { [filename |-> "r1.txt", data |-> ShortText, name |-> JaneDoe,
       resumetype |-> Engineering, occupation |-> SoftwareEngineer],
      [filename |-> "big.txt", data |-> LongText, name |-> None,
       resumetype |-> Sales, occupation |-> None],
      [filename |-> "cv.exe", data |-> ShortText, name |-> Bob,
       resumetype |-> Sales, occupation |-> None] }

\* POST /search arguments (main.py:164-168; an omitted parameter is None)
QNames == {None, Empty, JANE, Bob, Underscore}
QTypes == {None, Empty, sales, Percent}
QOccs == {None, ENGINEER}

\* the searches the clients of a run issue
Queries ==
    { [name |-> JANE, resumetype |-> sales, occupation |-> None],
      [name |-> None, resumetype |-> sales, occupation |-> None],
      [name |-> Empty, resumetype |-> Empty, occupation |-> ENGINEER] }

NoQuery == [name |-> None, resumetype |-> None, occupation |-> None]

\* --------------------------------------------------------- collaborators
UnsupportedFiles == {"cv.exe"}

\* utils.extract_text(filename, data): the text of the file, or an error for
\* an unsupported format
ExtractText(filename, data) ==
    IF filename \in UnsupportedFiles
    THEN [ok |-> FALSE, text |-> None]
    ELSE [ok |-> TRUE, text |-> data]

\* main.py:117  model.encode(text).tolist(): a vector fixed by the text
Encode(text) == <<Len(text), Cardinality({i \in 1..Len(text) : text[i] = "e"})>>

NoId == <<>>

\* a generator that repeats itself: every call returns the same identifier
Uuid4Repeats(ids) == <<"uuid", 1>>

\* main.py:124  str(uuid.uuid4()): a non-empty string no earlier call returned
Uuid4(ids) == <<"uuid", Cardinality(ids) + 1>>

\* the record keyed by the file's name instead of the minted identifier
VectorRecordByFilename(id, text, embedding, u) ==
    [id |-> <<u.filename>>, document |-> text, embedding |-> embedding,
     metadata |-> [name |-> u.name, resumetype |-> u.resumetype,
                   occupation |-> u.occupation, filename |-> u.filename]]

\* the record with the resumetype tag filled from the occupation
VectorRecordSwapTags(id, text, embedding, u) ==
    [id |-> id, document |-> text, embedding |-> embedding,
     metadata |-> [name |-> u.name, resumetype |-> u.occupation,
                   occupation |-> u.occupation, filename |-> u.filename]]

\* main.py:128-138  the record col.add is given
VectorRecord(id, text, embedding, u) ==
    [id |-> id, document |-> text, embedding |-> embedding,
     metadata |-> [name |-> u.name, resumetype |-> u.resumetype,
                   occupation |-> u.occupation, filename |-> u.filename]]

\* the slice taken one character too long
SnippetOffByOne(text) ==
    SubSeq(text, 1, IF Len(text) < SnippetLen + 1 THEN Len(text) ELSE SnippetLen + 1)

\* main.py:154  text[:300]
Snippet(text) == SubSeq(text, 1, IF Len(text) < SnippetLen THEN Len(text) ELSE SnippetLen)

\* the row given a second, newly generated identifier instead of chroma_id
ResumeRowOwnId(rowid, u, id, text, clock) ==
    [id |-> rowid, name |-> u.name, resumetype |-> u.resumetype,
     occupation |-> u.occupation, filename |-> u.filename,
     chroma_id |-> <<"uuid", 0>>, snippet |-> Snippet(text), created_at |-> clock]

\* main.py:147-155 with models.py:8-15: the row crud.create_resume inserts;
\* id comes from the table's sequence and created_at from the server's clock
ResumeRow(rowid, u, id, text, clock) ==
    [id |-> rowid, name |-> u.name, resumetype |-> u.resumetype,
     occupation |-> u.occupation, filename |-> u.filename,
     chroma_id |-> id, snippet |-> Snippet(text), created_at |-> clock]

\* crud.py:11-19  query_resumes over the rows of the table, in table order
RowMatches(row, name, resumetype, occupation) ==
    /\ Truthy(name) => ILikeContains(row.name, name)
    /\ Truthy(resumetype) => ILikeContains(row.resumetype, resumetype)
    /\ Truthy(occupation) => ILikeContains(row.occupation, occupation)

\* the query cut down to its newest match (ordered by id descending, limit 1)
query_resumesNewestOnly(table, name, resumetype, occupation) ==
    LET Keep(row) == RowMatches(row, name, resumetype, occupation)
        all == SelectSeq(table, Keep)
    IN  IF all = <<>> THEN <<>> ELSE <<all[Len(all)]>>

query_resumes(table, name, resumetype, occupation) ==
    LET Keep(row) == RowMatches(row, name, resumetype, occupation)
    IN  SelectSeq(table, Keep)

\* main.py:196-204, the superseded handler: every filter goes to the query,
\* whether or not a name is given
searchAllFilters(table, name, resumetype, occupation) ==
    query_resumes(table, name, resumetype, occupation)

\* the answer given in place of a result when nothing matches
NotFound == <<[id |-> 0, detail |-> "Not Found"]>>

\* a handler that answers "not found" when nothing matches
searchNotFoundOnEmpty(table, name, resumetype, occupation) ==
    LET result == searchAllFilters(table, name,
                                   IF Truthy(name) THEN None ELSE resumetype,
                                   IF Truthy(name) THEN None ELSE occupation)
    IN  IF result = <<>> THEN NotFound ELSE result

\* main.py:164-192  search
search(table, name, resumetype, occupation) ==
    IF Truthy(name)
    THEN LET result == query_resumes(table, name, None, None)
         IN  IF result = <<>> THEN <<>> ELSE result
    ELSE query_resumes(table, None, resumetype, occupation)

\* ------------------------------------------------------------------- state
VARIABLES
    chroma,      \* the Chroma collection: the set of records added
    resumes,     \* the resumes table: its rows in insertion order
    resume_seq,  \* the last value of the table's id sequence
    now,         \* the database server's clock at the last insert
    minted,      \* the identifiers uuid4 has returned
    pc,          \* per request: where its ingest_resume stands
    upload,      \* per request: the file and form fields received
    text,        \* per request: local `text`
    embedding,   \* per request: local `embedding`
    chroma_id,   \* per request: local `chroma_id`
    err,         \* per request: the step whose exception reached the caller
    ret,         \* per request: the object returned to the caller
    lastq,       \* the arguments of the last search served
    found        \* the result of the last search served

vars == <<chroma, resumes, resume_seq, now, minted, pc, upload, text,
          embedding, chroma_id, err, ret, lastq, found>>

stores == <<chroma, resumes, resume_seq>>
locals == <<upload, text, embedding, chroma_id, err, ret>>
searchvars == <<lastq, found>>

NoUpload == [filename |-> "", data |-> Empty, name |-> None,
             resumetype |-> None, occupation |-> None]
NoRow == [id |-> 0]

Init ==
    /\ chroma = {}
    /\ resumes = <<>>
    /\ resume_seq = 0
    /\ now = 0
    /\ minted = {}
    /\ pc = [r \in Reqs |-> "idle"]
    /\ upload = [r \in Reqs |-> NoUpload]
    /\ text = [r \in Reqs |-> None]
    /\ embedding = [r \in Reqs |-> <<>>]
    /\ chroma_id = [r \in Reqs |-> NoId]
    /\ err = [r \in Reqs |-> "none"]
    /\ ret = [r \in Reqs |-> NoRow]
    /\ lastq = NoQuery
    /\ found = <<>>

\* main.py:92-112  the next request arrives, its file is read and its text
\* extracted; an extraction error is logged and re-raised
Receive(r, u) ==
    /\ pc[r] = "idle"
    /\ \A r2 \in Reqs : r2 < r => pc[r2] # "idle"
    /\ upload' = [upload EXCEPT ![r] = u]
    /\ LET x == ExtractText(u.filename, u.data)
       IN  \/ /\ x.ok
              /\ text' = [text EXCEPT ![r] = x.text]
              /\ pc' = [pc EXCEPT ![r] = "encode"]
              /\ err' = [err EXCEPT ![r] = "none"]
           \/ /\ ~x.ok
              /\ text' = [text EXCEPT ![r] = None]
              /\ pc' = [pc EXCEPT ![r] = "failed"]
              /\ err' = [err EXCEPT ![r] = "extract"]
    /\ UNCHANGED <<stores, now, minted, embedding, chroma_id, ret, searchvars>>

\* the identifier minted and the record added before the text is encoded
EmbedAfterAdd(r) ==
    /\ pc[r] = "encode"
    /\ chroma_id' = [chroma_id EXCEPT ![r] = Uuid4(minted)]
    /\ minted' = minted \cup {Uuid4(minted)}
    /\ \/ /\ embedding' = [embedding EXCEPT ![r] = Encode(text[r])]
          /\ chroma' = chroma
          /\ pc' = [pc EXCEPT ![r] = "add"]
          /\ err' = err
       \/ /\ embedding' = embedding
          /\ chroma' = chroma \cup {VectorRecord(Uuid4(minted), text[r], <<>>, upload[r])}
          /\ pc' = [pc EXCEPT ![r] = "failed"]
          /\ err' = [err EXCEPT ![r] = "encode"]
    /\ UNCHANGED <<resumes, resume_seq, now, upload, text, ret, searchvars>>

\* the identifier derived from the file's name (a name-based uuid) instead of
\* a random one
EmbedIdFromFilename(r) ==
    /\ pc[r] = "encode"
    /\ \/ /\ embedding' = [embedding EXCEPT ![r] = Encode(text[r])]
          /\ chroma_id' = [chroma_id EXCEPT ![r] = <<"uuid", upload[r].filename>>]
          /\ minted' = minted \cup {<<"uuid", upload[r].filename>>}
          /\ pc' = [pc EXCEPT ![r] = "add"]
          /\ err' = err
       \/ /\ embedding' = embedding
          /\ chroma_id' = chroma_id
          /\ minted' = minted
          /\ pc' = [pc EXCEPT ![r] = "failed"]
          /\ err' = [err EXCEPT ![r] = "encode"]
    /\ UNCHANGED <<stores, now, upload, text, ret, searchvars>>

\* main.py:115-125  compute the embedding, or log and re-raise; then
\* chroma_id = str(uuid.uuid4())
Embed(r) ==
    /\ pc[r] = "encode"
    /\ \/ /\ embedding' = [embedding EXCEPT ![r] = Encode(text[r])]
          /\ chroma_id' = [chroma_id EXCEPT ![r] = Uuid4(minted)]
          /\ minted' = minted \cup {Uuid4(minted)}
          /\ pc' = [pc EXCEPT ![r] = "add"]
          /\ err' = err
       \/ /\ embedding' = embedding
          /\ chroma_id' = chroma_id
          /\ minted' = minted
          /\ pc' = [pc EXCEPT ![r] = "failed"]
          /\ err' = [err EXCEPT ![r] = "encode"]
    /\ UNCHANGED <<stores, now, upload, text, ret, searchvars>>

\* col.add fed from variables shared by all requests: the record is built
\* from what the request received last has set
ColAddSharedLocals(r) ==
    /\ pc[r] = "add"
    /\ LET last == CHOOSE r2 \in Reqs :
                       pc[r2] # "idle" /\ \A r3 \in Reqs : pc[r3] # "idle" => r3 <= r2
           rec == VectorRecord(chroma_id[r], text[last], embedding[last], upload[last])
       IN  \/ /\ chroma' = chroma \cup {rec}
              /\ pc' = [pc EXCEPT ![r] = "create"]
              /\ err' = err
           \/ /\ chroma' = chroma
              /\ pc' = [pc EXCEPT ![r] = "failed"]
              /\ err' = [err EXCEPT ![r] = "add"]
    /\ UNCHANGED <<resumes, resume_seq, now, minted, upload, text,
                   embedding, chroma_id, ret, searchvars>>

\* col.add whose exception is logged and not re-raised
ColAddSwallow(r) ==
    /\ pc[r] = "add"
    /\ LET rec == VectorRecord(chroma_id[r], text[r], embedding[r], upload[r])
       IN  \/ chroma' = chroma \cup {rec}
           \/ chroma' = chroma
    /\ pc' = [pc EXCEPT ![r] = "create"]
    /\ UNCHANGED <<resumes, resume_seq, now, minted, upload, text,
                   embedding, chroma_id, err, ret, searchvars>>

\* main.py:127-142  col.add(ids=[chroma_id], documents=[text], ...), or log
\* and re-raise.  Chroma keeps one record per id: adding an id it already
\* holds either raises or is ignored, depending on its version.
ColAdd(r) ==
    /\ pc[r] = "add"
    /\ LET rec == VectorRecord(chroma_id[r], text[r], embedding[r], upload[r])
           held == \E v \in chroma : v.id = chroma_id[r]
       IN  \/ /\ ~held
              /\ chroma' = chroma \cup {rec}
              /\ pc' = [pc EXCEPT ![r] = "create"]
              /\ err' = err
           \/ /\ held
              /\ chroma' = chroma
              /\ pc' = [pc EXCEPT ![r] = "create"]
              /\ err' = err
           \/ /\ chroma' = chroma
              /\ pc' = [pc EXCEPT ![r] = "failed"]
              /\ err' = [err EXCEPT ![r] = "add"]
    /\ UNCHANGED <<resumes, resume_seq, now, minted, upload, text,
                   embedding, chroma_id, ret, searchvars>>

\* create_resume followed by a compensation: a failed commit deletes the
\* record col.add wrote
CreateResumeCompensate(r) ==
    /\ pc[r] = "create"
    /\ \/ LET row == ResumeRow(resume_seq + 1, upload[r], chroma_id[r], text[r], now + 1)
          IN  /\ resumes' = Append(resumes, row)
              /\ resume_seq' = resume_seq + 1
              /\ now' = now + 1
              /\ chroma' = chroma
              /\ pc' = [pc EXCEPT ![r] = "done"]
              /\ ret' = [ret EXCEPT ![r] = row]
              /\ err' = err
       \/ /\ resumes' = resumes
          /\ resume_seq' = resume_seq
          /\ now' = now
          /\ chroma' = {v \in chroma : v.id # chroma_id[r]}
          /\ pc' = [pc EXCEPT ![r] = "failed"]
          /\ ret' = ret
          /\ err' = [err EXCEPT ![r] = "commit"]
    /\ UNCHANGED <<minted, upload, text, embedding, chroma_id, searchvars>>

\* create_resume that inserts again after an insert that had succeeded
CreateResumeTwice(r) ==
    /\ pc[r] = "create"
    /\ LET row == ResumeRow(resume_seq + 1, upload[r], chroma_id[r], text[r], now + 1)
           again == ResumeRow(resume_seq + 2, upload[r], chroma_id[r], text[r], now + 2)
       IN  /\ resumes' = resumes \o <<row, again>>
           /\ ret' = [ret EXCEPT ![r] = again]
    /\ resume_seq' = resume_seq + 2
    /\ now' = now + 2
    /\ pc' = [pc EXCEPT ![r] = "done"]
    /\ UNCHANGED <<chroma, minted, upload, text, embedding, chroma_id, err,
                   searchvars>>

\* create_resume that merges: a row of the same filename is replaced by the
\* new one instead of a row being added
CreateResumeUpsert(r) ==
    /\ pc[r] = "create"
    /\ LET row == ResumeRow(resume_seq + 1, upload[r], chroma_id[r], text[r], now + 1)
           old == {i \in DOMAIN resumes : resumes[i].filename = row.filename}
       IN  /\ resumes' = IF old = {} THEN Append(resumes, row)
                         ELSE [i \in DOMAIN resumes |->
                                  IF i \in old THEN row ELSE resumes[i]]
           /\ ret' = [ret EXCEPT ![r] = row]
    /\ resume_seq' = resume_seq + 1
    /\ now' = now + 1
    /\ pc' = [pc EXCEPT ![r] = "done"]
    /\ UNCHANGED <<chroma, minted, upload, text, embedding, chroma_id, err,
                   searchvars>>

\* main.py:145-161 with crud.py:4-9  crud.create_resume(db, ...): db.add and
\* db.commit insert the row, db.refresh reads it back; any of them may raise,
\* which is logged and re-raised; otherwise the row is returned.  The row's
\* created_at is the server's clock at the insert (models.py:15); the clock
\* is read nowhere else, so it is kept at the granularity of the inserts.
CreateResume(r) ==
    /\ pc[r] = "create"
    /\ \/ LET row == ResumeRow(resume_seq + 1, upload[r], chroma_id[r], text[r], now + 1)
             IN  /\ resumes' = Append(resumes, row)
                 /\ resume_seq' = resume_seq + 1
                 /\ now' = now + 1
                 /\ \/ /\ pc' = [pc EXCEPT ![r] = "done"]
                       /\ ret' = [ret EXCEPT ![r] = row]
                       /\ err' = err
                    \/ /\ pc' = [pc EXCEPT ![r] = "failed"]
                       /\ ret' = ret
                       /\ err' = [err EXCEPT ![r] = "refresh"]
       \/ /\ resumes' = resumes
          /\ resume_seq' = resume_seq
          /\ now' = now
          /\ pc' = [pc EXCEPT ![r] = "failed"]
          /\ ret' = ret
          /\ err' = [err EXCEPT ![r] = "commit"]
    /\ UNCHANGED <<chroma, minted, upload, text, embedding,
                   chroma_id, searchvars>>

\* a search answered from the collection's records instead of the table
SearchThroughIndex(q) ==
    /\ lastq' = q
    /\ found' = search(resumes, q.name, q.resumetype, q.occupation)
                 \o (IF \E v \in chroma :
                           RowMatches(v.metadata, q.name, q.resumetype, q.occupation)
                     THEN <<(CHOOSE v \in chroma :
                               RowMatches(v.metadata, q.name, q.resumetype,
                                          q.occupation)).metadata>>
                     ELSE <<>>)
    /\ UNCHANGED <<stores, now, minted, pc, locals>>

\* main.py:163-192  POST /search
Search(q) ==
    /\ lastq' = q
    /\ found' = search(resumes, q.name, q.resumetype, q.occupation)
    /\ UNCHANGED <<stores, now, minted, pc, locals>>

Next ==
    \/ \E r \in Reqs, u \in Uploads : Receive(r, u)
    \/ \E r \in Reqs : Embed(r)
    \/ \E r \in Reqs : ColAdd(r)
    \/ \E r \in Reqs : CreateResume(r)
    \/ \E q \in Queries : Search(q)

Spec == Init /\ [][Next]_vars

\* ---------------------------------------------------------------- helpers
\* the records of the Vector Index with a given id
VectorsOf(id) == {v \in chroma : v.id = id}
\* the positions of the rows of the Metadata Store with a given chroma_id
RowsOf(id) == {i \in DOMAIN resumes : resumes[i].chroma_id = id}

\* ------------------------------------------------------------------ claims
\* C1: an ingest that returned leaves exactly one VectorRecord and exactly
\* one IngestedDocument carrying the identifier it minted, and the document
\* it returned carries that same, non-empty identifier.
C1_SuccessfulIngestPairsStores ==
    \A r \in Reqs :
        pc[r] = "done" =>
            /\ Cardinality(VectorsOf(chroma_id[r])) = 1
            /\ Cardinality(RowsOf(chroma_id[r])) = 1
            /\ ret[r].chroma_id = chroma_id[r]
            /\ Len(chroma_id[r]) > 0
            /\ \E i \in RowsOf(chroma_id[r]) : resumes[i] = ret[r]

\* two ingests have returned
C1_Witness ==
    \E r1, r2 \in Reqs : r1 # r2 /\ pc[r1] = "done" /\ pc[r2] = "done"

\* C2: in every reachable state every IngestedDocument has exactly one
\* VectorRecord whose id is its correlationId.
C2_EveryDocumentHasItsVector ==
    \A i \in DOMAIN resumes : Cardinality(VectorsOf(resumes[i].chroma_id)) = 1

\* a document is stored, an ingest has failed and a search was served
C2_Witness ==
    /\ Len(resumes) > 0
    /\ \E r \in Reqs : pc[r] = "failed"
    /\ lastq # NoQuery

\* C3 as claimed: no document without its vector and no vector without its
\* document.
C3_OrphanFreeBothWays ==
    /\ \A i \in DOMAIN resumes : VectorsOf(resumes[i].chroma_id) # {}
    /\ \A v \in chroma : RowsOf(v.id) # {}

\* C3 as amended: no document is without its vector; a vector without its
\* document belongs to an ingest whose metadata write is still to come or
\* has failed.
C3_OrphansOnlyOfPendingOrFailedWrites ==
    /\ \A i \in DOMAIN resumes : VectorsOf(resumes[i].chroma_id) # {}
    /\ \A v \in chroma :
          RowsOf(v.id) = {} =>
              \E r \in Reqs :
                  /\ chroma_id[r] = v.id
                  /\ \/ pc[r] = "create"
                     \/ pc[r] = "failed" /\ err[r] = "commit"

\* one vector is orphaned by a failed metadata write while another ingest
\* has stored both of its records
C3_Witness ==
    /\ \E r \in Reqs :
          /\ pc[r] = "failed" /\ err[r] = "commit"
          /\ VectorsOf(chroma_id[r]) # {} /\ RowsOf(chroma_id[r]) = {}
    /\ \E r \in Reqs : pc[r] = "done"

\* C4: the metadata write of an ingest is attempted only once its vector
\* write has completed with success: whenever a row is inserted, it is by an
\* ingest standing after col.add whose record is in the index, and an ingest
\* whose col.add failed never inserts a row.
C4_VectorWriteBeforeMetadataWrite ==
    /\ [](\A r \in Reqs :
             /\ pc[r] = "create" => VectorsOf(chroma_id[r]) # {}
             /\ (pc[r] = "failed" /\ err[r] = "add") => RowsOf(chroma_id[r]) = {})
    /\ [][/\ resumes' # resumes =>
                \E r \in Reqs :
                    /\ pc[r] = "create" /\ pc'[r] # "create"
                    /\ VectorsOf(chroma_id[r]) # {}
                    /\ resumes' = Append(resumes, resumes'[Len(resumes')])
                    /\ resumes'[Len(resumes')].chroma_id = chroma_id[r]
          /\ \A r \in Reqs :
                (pc[r] = "add" /\ pc'[r] = "failed") => resumes' = resumes
         ]_vars

\* one ingest's vector write failed, another's succeeded and its metadata
\* write followed
C4_Witness ==
    /\ \E r \in Reqs : pc[r] = "failed" /\ err[r] = "add"
    /\ \E r \in Reqs : pc[r] = "done"

\* C5: an ingest whose extraction or encoding fails aborts before any store
\* write: the failing step changes neither store, the ingest has minted no
\* identifier, and every record of either store carries the identifier of
\* another ingest.
C5_EarlyFailureWritesNothing ==
    /\ [](\A r \in Reqs :
             (pc[r] = "failed" /\ err[r] \in {"extract", "encode"}) =>
                 /\ chroma_id[r] = NoId
                 /\ \A v \in chroma :
                       \E r2 \in Reqs : r2 # r /\ chroma_id[r2] = v.id
                 /\ \A i \in DOMAIN resumes :
                       \E r2 \in Reqs : r2 # r /\ chroma_id[r2] = resumes[i].chroma_id)
    /\ [][\A r \in Reqs :
             (pc[r] # "failed" /\ pc'[r] = "failed" /\ err'[r] \in {"extract", "encode"})
                 => (chroma' = chroma /\ resumes' = resumes /\ minted' = minted)
         ]_vars

\* both kinds of early failure have happened
C5_Witness ==
    /\ \E r \in Reqs : pc[r] = "failed" /\ err[r] = "extract"
    /\ \E r \in Reqs : pc[r] = "failed" /\ err[r] = "encode"

\* C6: an ingest whose metadata write fails after its vector write reports
\* the failure and returns nothing, and its VectorRecord stays in the index
\* with no IngestedDocument of its identifier: nothing removes it.
C6_FailedMetadataWriteLeavesOrphan ==
    \A r \in Reqs :
        (pc[r] = "failed" /\ err[r] = "commit") =>
            /\ Cardinality(VectorsOf(chroma_id[r])) = 1
            /\ RowsOf(chroma_id[r]) = {}
            /\ ret[r] = NoRow

\* a metadata write has failed and later ingests ran to their end
C6_Witness ==
    /\ pc[1] = "failed" /\ err[1] = "commit"
    /\ \A r \in Reqs : pc[r] \in {"done", "failed"}

\* a search was just served: only Search changes lastq and found
Served == <<lastq, found>>' # <<lastq, found>>

\* on a table, a search with a non-empty name returns what the same search
\* without resumetype and occupation returns
NameOnlyOn(table) ==
    \A n \in QNames : \A t \in QTypes : \A o \in QOccs :
        Truthy(n) => search(table, n, t, o) = search(table, n, None, None)

\* C7: with a non-empty name, search returns what the same search without
\* resumetype and occupation returns on the same table, whatever those two
\* are: for every table the program builds and every name, resumetype and
\* occupation of the query domains, and for every search it serves. Search
\* leaves the tables alone, so every table the program builds is already met
\* in a state where no search has been served yet.
C7_NameSearchIgnoresOtherFilters ==
    /\ [](lastq = NoQuery => NameOnlyOn(resumes))
    /\ [][(Served /\ Truthy(lastq'.name)) =>
             found' = search(resumes, lastq'.name, None, None)]_vars

\* a search by name with a resumetype was served a document whose
\* resumetype does not match the one it asked for
C7_Witness ==
    /\ Truthy(lastq.name) /\ Truthy(lastq.resumetype)
    /\ \E i \in DOMAIN found : ~ILikeContains(found[i].resumetype, lastq.resumetype)

\* the rows whose resumetype and occupation contain, without regard to case,
\* each of the two filters that is given
FlexibleMatches(table, resumetype, occupation) ==
    LET Keep(row) ==
            /\ Truthy(resumetype) => ContainsCI(row.resumetype, resumetype)
            /\ Truthy(occupation) => ContainsCI(row.occupation, occupation)
    IN  SelectSeq(table, Keep)

\* C8 as claimed: without a name, search returns exactly the stored documents
\* whose resumetype and occupation contain, without regard to case, each
\* filter that is given.
C8_FlexibleSearchIsSubstringMatch ==
    \A t \in QTypes : \A o \in QOccs :
        search(resumes, None, t, o) = FlexibleMatches(resumes, t, o)

\* the rows whose name contains the given name, without regard to case
NameMatches(table, name) ==
    LET Keep(row) == ContainsCI(row.name, name)
    IN  SelectSeq(table, Keep)

\* C9 as claimed: with a non-empty name, search returns exactly the stored
\* documents whose name contains it, without regard to case.
C9_NameSearchIsSubstringMatch ==
    \A n \in QNames : \A t \in QTypes : \A o \in QOccs :
        Truthy(n) => search(resumes, n, t, o) = NameMatches(resumes, n)

\* the arguments that hold none of LIKE's pattern characters
NoWildcard(s) == \A k \in DOMAIN s : s[k] \notin {"%", "_", "\\"}

\* C8 and C9 hold of the arguments without pattern characters
SubstringMatchWithoutWildcards ==
    /\ \A t \in QTypes : \A o \in QOccs :
          (NoWildcard(t) /\ NoWildcard(o)) =>
              search(resumes, None, t, o) = FlexibleMatches(resumes, t, o)
    /\ \A n \in QNames : \A t \in QTypes : \A o \in QOccs :
          (Truthy(n) /\ NoWildcard(n)) =>
              search(resumes, n, t, o) = NameMatches(resumes, n)

\* C10: the snippet of every stored document is at most 300 characters long
\* and is the first 300 characters (all of them, when fewer) of the text of
\* the VectorRecord of the same id, which is the extracted text of its ingest
\* and the text its embedding was computed from.
C10_SnippetIsPrefixOfText ==
    \A i \in DOMAIN resumes :
        LET snip == resumes[i].snippet
        IN  /\ Len(snip) <= SnippetLen
            /\ \E v \in VectorsOf(resumes[i].chroma_id) :
                  /\ Len(snip) = IF Len(v.document) <= SnippetLen
                                 THEN Len(v.document) ELSE SnippetLen
                  /\ \A k \in 1..Len(snip) : snip[k] = v.document[k]
                  /\ v.embedding = Encode(v.document)
                  /\ \E r \in Reqs :
                        /\ chroma_id[r] = v.id
                        /\ v.document = ExtractText(upload[r].filename, upload[r].data).text

\* a document whose text is longer than 300 characters is stored beside one
\* whose text is shorter
C10_Witness ==
    /\ \E i \in DOMAIN resumes :
          \E v \in VectorsOf(resumes[i].chroma_id) :
              Len(v.document) > SnippetLen /\ Len(resumes[i].snippet) = SnippetLen
    /\ \E i \in DOMAIN resumes :
          \E v \in VectorsOf(resumes[i].chroma_id) :
              Len(v.document) < SnippetLen /\ resumes[i].snippet = v.document

\* C11: every ingest that reaches the minting of its identifier gets one that
\* no other ingest, finished, failed or in flight, has: so no two
\* VectorRecords share an id and no two IngestedDocuments a correlationId.
C11_IdentifiersAreDistinct ==
    /\ \A r1, r2 \in Reqs :
          (r1 # r2 /\ chroma_id[r1] # NoId /\ chroma_id[r2] # NoId) =>
              chroma_id[r1] # chroma_id[r2]
    /\ \A r \in Reqs : pc[r] \in {"add", "create", "done"} => chroma_id[r] # NoId
    /\ \A v1, v2 \in chroma : v1.id = v2.id => v1 = v2
    /\ \A i, j \in DOMAIN resumes :
          resumes[i].chroma_id = resumes[j].chroma_id => i = j

\* the same file was submitted again after its first ingest failed at a store
\* write, and the second ingest stored both records
C11_Witness ==
    /\ pc[1] = "failed" /\ err[1] \in {"add", "commit"}
    /\ upload[2] = upload[1]
    /\ pc[2] = "done"

\* no row of the table passes the filters the search applies
NoMatch(table, n, t, o) ==
    \A i \in DOMAIN table :
        ~RowMatches(table[i], n, IF Truthy(n) THEN None ELSE t,
                                 IF Truthy(n) THEN None ELSE o)

\* on a table, every search that nothing matches returns the empty sequence
EmptyWhenNoMatchOn(table) ==
    \A n \in QNames : \A t \in QTypes : \A o \in QOccs :
        NoMatch(table, n, t, o) => search(table, n, t, o) = <<>>

\* C12: a search that nothing matches returns the empty sequence, which is
\* what its client is served: on every table the program builds (the empty
\* one included) and with any arguments of the query domains, and for every
\* search served. Search leaves the tables alone, so every table the program
\* builds is already met in a state where no search has been served yet.
C12_NoMatchIsEmptyResult ==
    /\ [](lastq = NoQuery => EmptyWhenNoMatchOn(resumes))
    /\ [][(Served /\ NoMatch(resumes, lastq'.name, lastq'.resumetype,
                             lastq'.occupation)) => found' = <<>>]_vars

\* a search by name was served the empty sequence from a table that holds
\* documents, none of them of that name
C12_Witness ==
    /\ Truthy(lastq.name)
    /\ found = <<>>
    /\ Len(resumes) = MaxIngests
    /\ NoMatch(resumes, lastq.name, None, None)

\* C13: both stores only grow: every step keeps every VectorRecord and every
\* IngestedDocument there is, with every field as it was.
C13_StoresAppendOnly ==
    [][/\ chroma \subseteq chroma'
       /\ Len(resumes') >= Len(resumes)
       /\ \A i \in DOMAIN resumes : resumes'[i] = resumes[i]]_vars

\* the same file was ingested twice with success and a search was served
C13_Witness ==
    /\ \A r \in Reqs : pc[r] = "done"
    /\ upload[1] = upload[2]
    /\ Len(resumes) = MaxIngests /\ Cardinality(chroma) = MaxIngests
    /\ found # <<>>

\* C14: a search changes neither store, what it returns is fixed by its
\* arguments and the rows of the Metadata Store, and every document it
\* returned is a row of the Metadata Store, never a record of the Vector
\* Index alone.
C14_SearchReadsMetadataOnly ==
    /\ [][Served =>
             /\ chroma' = chroma /\ resumes' = resumes /\ resume_seq' = resume_seq
             /\ found' = search(resumes, lastq'.name, lastq'.resumetype,
                                lastq'.occupation)]_vars
    /\ [](\A i \in DOMAIN found : \E j \in DOMAIN resumes : resumes[j] = found[i])

\* a search was served nothing although an orphaned VectorRecord carries
\* tags that pass its filters
C14_Witness ==
    /\ lastq # NoQuery /\ found = <<>>
    /\ resumes = <<>>
    /\ \A r \in Reqs : pc[r] = "failed" /\ err[r] = "commit"
    /\ \E v \in chroma :
          RowMatches(v.metadata, lastq.name, lastq.resumetype, lastq.occupation)

\* the request whose step this is
Steps(r) == pc'[r] # pc[r]

\* C15: whatever the interleaving, a step of one ingest adds only records of
\* its own identifier, built from its own text and fields, and leaves the
\* records and the locals of every other ingest as they were; an ingest in
\* flight can always take its next step with success; and an ingest that
\* returned has its own VectorRecord and IngestedDocument, whatever became of
\* the others.
C15_IngestsAreIsolated ==
    /\ [][\A r \in Reqs : Steps(r) =>
             /\ chroma \subseteq chroma'
             /\ \A v \in chroma' \ chroma :
                   /\ v.id = chroma_id[r] /\ v.document = text[r]
                   /\ v.metadata.filename = upload[r].filename
             /\ \A i \in DOMAIN resumes : resumes'[i] = resumes[i]
             /\ \A i \in DOMAIN resumes' \ DOMAIN resumes :
                   /\ resumes'[i].chroma_id = chroma_id[r]
                   /\ resumes'[i].filename = upload[r].filename
             /\ \A r2 \in Reqs \ {r} :
                   /\ pc'[r2] = pc[r2] /\ err'[r2] = err[r2] /\ ret'[r2] = ret[r2]
                   /\ text'[r2] = text[r2] /\ chroma_id'[r2] = chroma_id[r2]
                   /\ upload'[r2] = upload[r2] /\ embedding'[r2] = embedding[r2]
         ]_vars
    /\ [](\A r \in Reqs :
             /\ pc[r] = "add" => ENABLED (ColAdd(r) /\ pc'[r] = "create")
             /\ pc[r] = "create" => ENABLED (CreateResume(r) /\ pc'[r] = "done")
             /\ pc[r] = "done" =>
                   /\ \E v \in chroma :
                         /\ v.id = chroma_id[r] /\ v.document = text[r]
                         /\ v.embedding = embedding[r]
                         /\ v.metadata.filename = upload[r].filename
                   /\ \E i \in DOMAIN resumes :
                         /\ resumes[i] = ret[r]
                         /\ resumes[i].filename = upload[r].filename
                         /\ resumes[i].name = upload[r].name)

\* two ingests of different files overlapped: the second minted its
\* identifier first and failed at its metadata write, and the first returned
C15_Witness ==
    /\ pc[1] = "done"
    /\ pc[2] = "failed" /\ err[2] = "commit"
    /\ chroma_id[2] = <<"uuid", 1>>
    /\ upload[1] # upload[2]

\* C16: the tags of the VectorRecord of every IngestedDocument are that
\* document's name, resumetype, occupation and filename.
C16_TagsEqualDocumentFields ==
    \A i \in DOMAIN resumes :
        /\ VectorsOf(resumes[i].chroma_id) # {}
        /\ \A v \in VectorsOf(resumes[i].chroma_id) :
              v.metadata = [name |-> resumes[i].name,
                            resumetype |-> resumes[i].resumetype,
                            occupation |-> resumes[i].occupation,
                            filename |-> resumes[i].filename]

\* a document with every field given is stored beside one with fields omitted
C16_Witness ==
    /\ \E i \in DOMAIN resumes :
          Truthy(resumes[i].name) /\ Truthy(resumes[i].occupation)
    /\ \E i \in DOMAIN resumes :
          resumes[i].name = None /\ resumes[i].occupation = None

\* on a table, an empty string filters as an absent argument does
EmptyIsAbsentOn(table) ==
    /\ \A t \in QTypes : \A o \in QOccs \cup {Empty} :
          search(table, Empty, t, o) = search(table, None, t, o)
    /\ \A n \in {None, Empty} : \A o \in QOccs \cup {Empty} :
          search(table, n, Empty, o) = search(table, n, None, o)
    /\ \A n \in {None, Empty} : \A t \in QTypes :
          search(table, n, t, Empty) = search(table, n, t, None)
    /\ \A i \in DOMAIN table :
          \E j \in DOMAIN search(table, Empty, Empty, Empty) :
              search(table, Empty, Empty, Empty)[j] = table[i]

\* C17: an empty string is an absent filter: as name it sends the search down
\* the flexible branch with the result of the search without a name, and as
\* resumetype or occupation it constrains nothing: on every table the
\* program builds and for every search with an empty name it serves. Search
\* leaves the tables alone, so every table the program builds is already met
\* in a state where no search has been served yet.
C17_EmptyStringIsAbsent ==
    /\ [](lastq = NoQuery => EmptyIsAbsentOn(resumes))
    /\ [][(Served /\ lastq'.name = Empty) =>
             found' = search(resumes, None, lastq'.resumetype,
                             lastq'.occupation)]_vars

\* a search with an empty name and an empty resumetype was served a
\* document, from a table that also holds a document with no name
C17_Witness ==
    /\ lastq.name = Empty /\ lastq.resumetype = Empty
    /\ found # <<>>
    /\ \E i \in DOMAIN resumes : resumes[i].name = None

\* the ingests whose vector write succeeded and whose metadata write is
\* still to come or has failed
Unpaired ==
    {r \in Reqs : pc[r] = "create" \/ (pc[r] = "failed" /\ err[r] = "commit")}

\* C18: there are at least as many VectorRecords as IngestedDocuments, the
\* surplus is the number of ingests whose vector write succeeded and whose
\* metadata write has failed or is still to come, and the two counts are
\* equal when no ingest is in flight and no metadata write has failed.
C18_SurplusCountsUnpairedVectors ==
    /\ Cardinality(chroma) >= Len(resumes)
    /\ Cardinality(chroma) - Len(resumes) = Cardinality(Unpaired)
    /\ (\A r \in Reqs : pc[r] \in {"idle", "done"}
                        \/ (pc[r] = "failed" /\ err[r] # "commit"))
          => Cardinality(chroma) = Len(resumes)

\* one vector waits for its metadata write, another has lost its own
C18_Witness ==
    /\ pc[1] = "create"
    /\ pc[2] = "failed" /\ err[2] = "commit"
    /\ Cardinality(chroma) = Len(resumes) + 2

\* the result of the search with arguments q on a table
Result(table, q) == search(table, q.name, q.resumetype, q.occupation)

\* every document of the first result is in the second, as it was
Within(first, second) ==
    \A i \in DOMAIN first : \E j \in DOMAIN second : second[j] = first[i]

\* C19: what a search has returned, the same search returns ever after: every
\* document served to a search is still returned, unchanged, by that search
\* on the table as it is now, and no step takes a document out of the result
\* of any search of the query domains. Search leaves the tables alone, so
\* every change of the table the program makes is already met in a step taken
\* before any search has been served.
C19_SearchResultsOnlyGrow ==
    /\ [](Within(found, Result(resumes, lastq)))
    /\ [][(lastq = NoQuery /\ resumes' # resumes) =>
             \A n \in QNames : \A t \in QTypes : \A o \in QOccs :
                 Within(search(resumes, n, t, o), search(resumes', n, t, o))]_vars

\* the search last served would now return more than it was served, one
\* ingest having stored a matching document since and the other having failed
C19_Witness ==
    /\ found # <<>>
    /\ Len(Result(resumes, lastq)) > Len(found)
    /\ \E r \in Reqs : pc[r] = "failed"
=============================================================================
